---------------------------- MODULE Spec2Model ----------------------------
(***************************************************************************)
(* Model of the menu manager page (src/src/pages/index.tsx).               *)
(*                                                                         *)
(* MenuForm keeps the draft list (menuItems) and the parallel list of      *)
(* tracked ids (itemIds); MenusPage keeps the error slot, the modal flag   *)
(* and the selected menu, and runs the three handlers handleCreateMenu,    *)
(* handleUpdateMenu and handleDeleteMenu.  A handler is a sequence of      *)
(* awaited requests; one step of the model is the code that runs between   *)
(* two awaits.  The GraphQL backend is outside the repository: a request   *)
(* is modelled by the response it returns.                                 *)
(*                                                                         *)
(* JavaScript values: null and undefined are the strings NULL and          *)
(* UNDEFINED; an optional object (a SelectOption, a category reference) is *)
(* the empty sequence or a one-element sequence; array indices are 0-based *)
(* as in the source and converted where a TLA+ sequence is indexed.        *)
(***************************************************************************)
EXTENDS Integers, Sequences, FiniteSets, TLC

\* Largest number of drafts the modelled user keeps in the form, and largest
\* number of edits the modelled user makes to a form before submitting or
\* closing it.
MaxItems == 3
MaxEdits == 8

NULL == "<null>"
UNDEFINED == "<undefined>"

\* JavaScript truthiness of a string | null | undefined.
Truthy(s) == s # NULL /\ s # UNDEFINED /\ s # ""

\* a || b on strings.
OrElse(a, b) == IF Truthy(a) THEN a ELSE b

None == <<>>
Some(x) == <<x>>

\* o?.value of an optional SelectOption.
OptValue(o) == IF o = None THEN UNDEFINED ELSE o[1].value

\* arr[i] of a JavaScript array of strings (0-based, undefined out of range).
At(arr, i) == IF i >= 0 /\ i < Len(arr) THEN arr[i + 1] ELSE UNDEFINED

\* arr.filter((_, i) => P(i)): the elements whose 0-based index satisfies P,
\* in order.
FilterByIndex(arr, P(_)) ==
    LET kept == {i \in 0..(Len(arr) - 1) : P(i)}
        nth(k) == CHOOSE i \in kept : Cardinality({j \in kept : j < i}) = k - 1
    IN  [k \in 1..Cardinality(kept) |-> arr[nth(k) + 1]]

\* arr.map((x, i) => F(x, i)) with the 0-based index.
MapIndexed(arr, F(_, _)) == [k \in 1..Len(arr) |-> F(arr[k], k - 1)]

Range(s) == {s[k] : k \in 1..Len(s)}

-----------------------------------------------------------------------------
(* The data the queries return.                                            *)

\* A menu item as the menus query returns it (interface MenuItem, plus url).
Item(id, name, category, parent) ==
    [id |-> id, name |-> name, url |-> NULL, category |-> category,
     collection |-> None, page |-> None, parent |-> parent]

CatShoes == [id |-> "cat-1", name |-> "Shoes"]

MenuMain ==
    [id |-> "menu-1", name |-> "Main", slug |-> "main",
     items |-> << Item("a", "Home", None, None),
                  Item("b", "Shop", Some(CatShoes),
                       Some([id |-> "a", name |-> "Home"])) >>]

MenuFooter ==
    [id |-> "menu-2", name |-> "Footer", slug |-> "",
     items |-> << [Item("c", "About", None, None)
                     EXCEPT !.url = "https://example.com/about"] >>]

\* The results the menus query can return.
Snapshots == { << MenuMain, MenuFooter >> }

\* categoriesData / collectionsData / pagesData unwrapped to node lists: the
\* three catalogue queries have returned no data, and the lists are the
\* code's default, [].
categories == << >>
collections == << >>
pages == << >>

\* Names the user types into an item's name input, and into the menu's.
NameInputs == {"Sale"}
MenuNameInputs == {"Top"}

-----------------------------------------------------------------------------
(* MenuForm                                                                *)

VARIABLES
    menuData,
    menuItems,
    itemIds,
    edits     \* history: edits made since the form was mounted

formVars == <<menuData, menuItems, itemIds, edits>>

\* useState initialiser of menuData.
InitialMenuData(initialMenu) ==
    IF initialMenu = None THEN [name |-> "", slug |-> ""]
    ELSE [name |-> OrElse(initialMenu[1].name, ""),
          slug |-> OrElse(initialMenu[1].slug, "")]

\* A draft (MenuItemForm).  paired is a history field, not part of the
\* program: the tracked id the draft was paired with when it entered the
\* list.
Draft(name, categoryId, collectionId, pageId, parentId, paired) ==
    [name |-> name, categoryId |-> categoryId, collectionId |-> collectionId,
     pageId |-> pageId, parentId |-> parentId, paired |-> paired]

\* useState initialisers of menuItems and itemIds.
InitialMenuItems(initialMenu) ==
    IF initialMenu = None THEN << >>
    ELSE MapIndexed(initialMenu[1].items, LAMBDA item, index :
           Draft(item.name,
                 IF item.category # None
                    THEN Some([value |-> item.category[1].id,
                               label |-> item.category[1].name])
                    ELSE None,
                 IF item.collection # None
                    THEN Some([value |-> item.collection[1].id,
                               label |-> item.collection[1].name])
                    ELSE None,
                 IF item.page # None
                    THEN Some([value |-> item.page[1].id,
                               label |-> item.page[1].title])
                    ELSE None,
                 IF item.parent # None
                    THEN Some([value |-> item.parent[1].id,
                               label |-> item.parent[1].name])
                    ELSE None,
                 item.id))

InitialItemIds(initialMenu) ==
    IF initialMenu = None THEN << >>
    ELSE MapIndexed(initialMenu[1].items, LAMBDA item, index : item.id)

\* Faulty variant: the row itself is offered as its own parent.
getAvailableParentItemsUpToSelf(items, ids, currentIndex) ==
    MapIndexed(FilterByIndex(items, LAMBDA index : index <= currentIndex),
               LAMBDA item, index :
                 [value |-> OrElse(At(ids, index), ToString(index)),
                  label |-> item.name])

getAvailableParentItems(items, ids, currentIndex) ==
    MapIndexed(FilterByIndex(items, LAMBDA index : index < currentIndex),
               LAMBDA item, index :
                 [value |-> OrElse(At(ids, index), ToString(index)),
                  label |-> item.name])

addMenuItemItems(items, ids) ==
    Append(items, Draft("", None, None, None, None,
                        "new-" \o ToString(Len(ids))))

addMenuItemIds(items, ids) == Append(ids, "new-" \o ToString(Len(ids)))

\* { ...item, ...updates }: updates is a partial record.
Merge(item, updates) ==
    [f \in DOMAIN item |->
       IF f \in DOMAIN updates THEN updates[f] ELSE item[f]]

updateMenuItem(items, index, updates) ==
    MapIndexed(items, LAMBDA item, i :
                 IF i = index THEN Merge(item, updates) ELSE item)

removeMenuItemItems(items, index) ==
    FilterByIndex(items, LAMBDA i : i # index)

\* Faulty variant: the last tracked id is dropped instead of the one at index.
removeMenuItemIdsLast(ids, index) ==
    FilterByIndex(ids, LAMBDA i : i # Len(ids) - 1)

removeMenuItemIds(ids, index) ==
    FilterByIndex(ids, LAMBDA i : i # index)

\* handleSubmit's processedItems and the argument it passes to onSubmit.
processedItems(items, ids) ==
    MapIndexed(items, LAMBDA item, index :
                 [name |-> item.name,
                  category |-> OptValue(item.categoryId),
                  collection |-> OptValue(item.collectionId),
                  page |-> OptValue(item.pageId),
                  parent |-> OptValue(item.parentId),
                  id |-> At(ids, index)])

SubmittedMenu(data, items, ids) ==
    [name |-> data.name,
     slug |-> OrElse(data.slug, UNDEFINED),
     items |-> processedItems(items, ids)]

\* The inputs marked required (menu name, every item name) are filled in:
\* the browser does not fire the form's submit event otherwise.
RequiredFilled(data, items) ==
    /\ data.name # ""
    /\ \A k \in 1..Len(items) : items[k].name # ""

-----------------------------------------------------------------------------
(* MenusPage                                                               *)

VARIABLES
    error,          \* the page-level error slot: a message or NULL
    isModalOpen,
    selectedMenu,   \* None or Some(menu)
    loading,        \* fetching of the menus query
    menusData       \* the menus the query returned last

pageVars == <<error, isModalOpen, selectedMenu, loading, menusData>>

\* A running handler: the code between two awaits is one step.
VARIABLES
    pc,             \* "idle", the request awaited, or "done"
    closure,        \* what the handler captured: selectedMenu and its argument
    i,              \* loop index of the delete loop, then of the create loop
    createdItemIds, \* the Map of handleUpdateMenu, as its entries in order
    requests,       \* history: the requests this run issued, with responses
    refetched       \* history: this run called refetchMenus

runVars == <<pc, closure, i, createdItemIds, requests, refetched>>

vars == <<formVars, pageVars, runVars>>

\* What MenusPage renders (the guards before its return).
View(err, load) ==
    IF load THEN "loading" ELSE IF Truthy(err) THEN "banner" ELSE "page"

\* MenuForm is mounted while the page renders the open modal.
FormMounted(err, load, open) == View(err, load) = "page" /\ open

\* The form's state after a render of the page with the given page state:
\* kept while the form stays mounted, initialised from initialMenu when it
\* is mounted, gone when it is not.
Rerender(err, load, open, sel) ==
    IF FormMounted(err, load, open)
    THEN IF FormMounted(error, loading, isModalOpen)
         THEN UNCHANGED formVars
         ELSE /\ menuData' = InitialMenuData(sel)
              /\ menuItems' = InitialMenuItems(sel)
              /\ itemIds' = InitialItemIds(sel)
              /\ edits' = 0
    ELSE /\ menuData' = InitialMenuData(None)
         /\ menuItems' = << >>
         /\ itemIds' = << >>
         /\ edits' = 0

NoClosure == [selectedMenu |-> None, menuData |-> None, id |-> NULL]

Init ==
    /\ error = NULL
    /\ isModalOpen = FALSE
    /\ selectedMenu = None
    /\ loading = TRUE
    /\ menusData = << >>
    /\ menuData = InitialMenuData(None)
    /\ menuItems = << >>
    /\ itemIds = << >>
    /\ edits = 0
    /\ pc = "idle"
    /\ closure = NoClosure
    /\ i = 0
    /\ createdItemIds = << >>
    /\ requests = << >>
    /\ refetched = FALSE

\* The menus query returns.
FetchDone ==
    /\ loading
    /\ \E data \in Snapshots :
         /\ menusData' = data
         /\ loading' = FALSE
         /\ Rerender(error, FALSE, isModalOpen, selectedMenu)
    /\ UNCHANGED <<error, isModalOpen, selectedMenu, runVars>>

\* The user acts on what the page shows, and starts nothing while a
\* handler is running.
UserAtPage == View(error, loading) = "page" /\ pc = "idle"
UserAtForm == UserAtPage /\ isModalOpen
UserEdits == UserAtForm /\ edits < MaxEdits /\ edits' = edits + 1

\* "Create New Menu"
OpenCreate ==
    /\ UserAtPage /\ ~isModalOpen
    /\ isModalOpen' = TRUE
    /\ Rerender(error, loading, TRUE, selectedMenu)
    /\ UNCHANGED <<error, selectedMenu, loading, menusData, runVars>>

\* "Edit Menu"
OpenEdit ==
    /\ UserAtPage /\ ~isModalOpen
    /\ \E menu \in Range(menusData) :
         /\ selectedMenu' = Some(menu)
         /\ isModalOpen' = TRUE
         /\ Rerender(error, loading, TRUE, Some(menu))
    /\ UNCHANGED <<error, loading, menusData, runVars>>

\* The modal's close button and the form's Cancel (onClose).
CloseModal ==
    /\ UserAtForm
    /\ selectedMenu' = None
    /\ isModalOpen' = FALSE
    /\ Rerender(error, loading, FALSE, None)
    /\ UNCHANGED <<error, loading, menusData, runVars>>

SetMenuName ==
    /\ UserEdits
    /\ \E name \in MenuNameInputs :
         menuData' = [menuData EXCEPT !.name = name]
    /\ UNCHANGED <<menuItems, itemIds, pageVars, runVars>>

AddMenuItem ==
    /\ UserEdits
    /\ Len(menuItems) < MaxItems
    /\ menuItems' = addMenuItemItems(menuItems, itemIds)
    /\ itemIds' = addMenuItemIds(menuItems, itemIds)
    /\ UNCHANGED <<menuData, pageVars, runVars>>

\* The options of the four Selects of row index, as updates.
OptionsOf(nodes, labelOf(_)) ==
    {[value |-> nodes[k].id, label |-> labelOf(nodes[k])] : k \in 1..Len(nodes)}

UpdateInputs(index) ==
    {[name |-> n] : n \in NameInputs}
    \cup (IF selectedMenu # None
          THEN {[parentId |-> Some(o)] :
                 o \in Range(getAvailableParentItems(menuItems, itemIds, index))}
          ELSE {})
    \cup {[categoryId |-> Some(o)] :
            o \in OptionsOf(categories, LAMBDA n : n.name)}
    \cup {[collectionId |-> Some(o)] :
            o \in OptionsOf(collections, LAMBDA n : n.name)}
    \cup {[pageId |-> Some(o)] : o \in OptionsOf(pages, LAMBDA n : n.title)}

UpdateMenuItem ==
    /\ UserEdits
    /\ \E index \in 0..(Len(menuItems) - 1) :
         \E updates \in UpdateInputs(index) :
           menuItems' = updateMenuItem(menuItems, index, updates)
    /\ UNCHANGED <<menuData, itemIds, pageVars, runVars>>

RemoveMenuItem ==
    /\ UserEdits
    /\ \E index \in 0..(Len(menuItems) - 1) :
         /\ menuItems' = removeMenuItemItems(menuItems, index)
         /\ itemIds' = removeMenuItemIds(itemIds, index)
    /\ UNCHANGED <<menuData, pageVars, runVars>>

-----------------------------------------------------------------------------
(* Requests and responses                                                  *)

\* What an awaited mutation resolves to: result.error (the message of the
\* CombinedError, or NULL), the errors list of result.data.<mutation> as
\* the list of its messages (a null message is ""), and the id of the
\* menuItem of a menuItemCreate response (NULL when there is none).
Response(err, errors, id) == [error |-> err, errors |-> errors, id |-> id]

TransportError == Response("[Network] Failed to fetch", << >>, NULL)

\* Server error lists: one error without message, and two errors.
ErrorLists == { << "" >>, << "Name taken", "" >> }

Failures == {TransportError} \cup {Response(NULL, es, NULL) : es \in ErrorLists}

Accepted(id) == Response(NULL, << >>, id)

\* arr.join(sep)
RECURSIVE Join(_, _)
Join(arr, sep) ==
    IF Len(arr) = 0 THEN ""
    ELSE IF Len(arr) = 1 THEN arr[1]
    ELSE arr[1] \o sep \o Join(Tail(arr), sep)

\* A request of the running handler; result is None while it is in flight.
Request(op, variables) == [op |-> op, variables |-> variables, result |-> None]

Issue(reqs, op, variables) == Append(reqs, Request(op, variables))

\* The request in flight returns r.
Respond(reqs, r) == [reqs EXCEPT ![Len(reqs)].result = Some(r)]

\* Map.get / Map.set on the entries of a Map, kept in insertion order.
MapGet(map, key) ==
    IF \E k \in 1..Len(map) : map[k].key = key
    THEN map[CHOOSE k \in 1..Len(map) : map[k].key = key].value
    ELSE UNDEFINED

MapSet(map, key, value) ==
    IF \E k \in 1..Len(map) : map[k].key = key
    THEN [k \in 1..Len(map) |->
            IF map[k].key = key THEN [key |-> key, value |-> value] ELSE map[k]]
    ELSE Append(map, [key |-> key, value |-> value])

\* The id the backend issues for the item a menuItemCreate creates: new in
\* this run.
IssuedId(reqs) == "srv-" \o ToString(Len(reqs))

\* The handler's catch block: setError(err.message).
Caught(reqs, message) ==
    /\ requests' = reqs
    /\ error' = message
    /\ pc' = "done"
    /\ Rerender(message, loading, isModalOpen, selectedMenu)
    /\ UNCHANGED <<isModalOpen, selectedMenu, loading, menusData,
                   closure, i, createdItemIds, refetched>>

\* refetchMenus(): the menus query is fetching again.
Refetch ==
    /\ loading' = TRUE
    /\ refetched' = TRUE

\* The handler's promise resolves; its locals are gone.
HandlerReturn ==
    /\ pc = "done"
    /\ pc' = "idle"
    /\ closure' = NoClosure
    /\ i' = 0
    /\ createdItemIds' = << >>
    /\ requests' = << >>
    /\ refetched' = FALSE
    /\ UNCHANGED <<formVars, pageVars>>

-----------------------------------------------------------------------------
(* handleCreateMenu                                                        *)

createMenuInput(arg) ==
    [name |-> arg.name,
     slug |-> arg.slug,
     items |-> MapIndexed(arg.items, LAMBDA item, index :
                 [name |-> item.name, category |-> item.category,
                  collection |-> item.collection, page |-> item.page])]

\* result.data.menuCreate.errors.map((e) => e.message).join(", ")
createMenuMessage(r) ==
    IF Truthy(r.error) THEN r.error ELSE Join(r.errors, ", ")

createMenuFailed(r) == Truthy(r.error) \/ Len(r.errors) > 0

\* The form is submitted with no menu selected: handleCreateMenu runs up to
\* its await.
SubmitCreate ==
    /\ UserAtForm
    /\ selectedMenu = None
    /\ RequiredFilled(menuData, menuItems)
    /\ LET arg == SubmittedMenu(menuData, menuItems, itemIds)
       IN  /\ closure' = [selectedMenu |-> selectedMenu,
                          menuData |-> Some(arg), id |-> NULL]
           /\ requests' = Issue(<< >>, "menuCreate",
                                [input |-> createMenuInput(arg)])
    /\ pc' = "menuCreate"
    /\ refetched' = FALSE
    /\ UNCHANGED <<formVars, pageVars, i, createdItemIds>>

MenuCreateReturns ==
    /\ pc = "menuCreate"
    /\ \E r \in Failures \cup {Accepted(NULL)} :
         LET reqs == Respond(requests, r)
         IN  IF createMenuFailed(r)
             THEN Caught(reqs, createMenuMessage(r))
             ELSE /\ requests' = reqs
                  /\ isModalOpen' = FALSE
                  /\ Refetch
                  /\ pc' = "done"
                  /\ Rerender(error, TRUE, FALSE, selectedMenu)
                  /\ UNCHANGED <<error, selectedMenu, menusData,
                                 closure, i, createdItemIds>>

-----------------------------------------------------------------------------
(* handleDeleteMenu                                                        *)

deleteMenuMessage(r) ==
    IF Truthy(r.error) THEN r.error ELSE Join(r.errors, ", ")

\* Faulty variant: the server error list of menuDelete is not looked at.
deleteMenuFailedTransportOnly(r) == Truthy(r.error)

deleteMenuFailed(r) == Truthy(r.error) \/ Len(r.errors) > 0

\* "Delete Menu" on a menu of the list: handleDeleteMenu(menu.id) runs up
\* to its await.
DeleteMenuClick ==
    /\ UserAtPage /\ ~isModalOpen
    /\ \E menu \in Range(menusData) :
         /\ closure' = [selectedMenu |-> selectedMenu,
                        menuData |-> None, id |-> menu.id]
         /\ requests' = Issue(<< >>, "menuDelete", [id |-> menu.id])
    /\ pc' = "menuDelete"
    /\ refetched' = FALSE
    /\ UNCHANGED <<formVars, pageVars, i, createdItemIds>>

MenuDeleteReturns ==
    /\ pc = "menuDelete"
    /\ \E r \in Failures \cup {Accepted(NULL)} :
         LET reqs == Respond(requests, r)
         IN  IF deleteMenuFailed(r)
             THEN Caught(reqs, deleteMenuMessage(r))
             ELSE /\ requests' = reqs
                  /\ Refetch
                  /\ pc' = "done"
                  /\ Rerender(error, TRUE, isModalOpen, selectedMenu)
                  /\ UNCHANGED <<error, isModalOpen, selectedMenu, menusData,
                                 closure, i, createdItemIds>>

-----------------------------------------------------------------------------
(* handleUpdateMenu                                                        *)

\* errors.map((error) => error.message || "Unknown error").join(", ")
updateMenuMessage(r) ==
    IF Truthy(r.error) THEN r.error
    ELSE Join(MapIndexed(r.errors, LAMBDA message, index :
                           OrElse(message, "Unknown error")), ", ")

updateMenuFailed(r) == Truthy(r.error) \/ Len(r.errors) > 0

\* Faulty variant: the server error list of menuItemDelete is not looked at.
deleteItemFailedTransportOnly(r) == Truthy(r.error)

deleteItemFailed(r) == Truthy(r.error) \/ Len(r.errors) > 0
createItemFailed(r) == Truthy(r.error) \/ Len(r.errors) > 0

\* Faulty variant: the existing items are deleted last to first.
existingItemIdsReversed(menu) ==
    [k \in 1..Len(menu.items) |-> menu.items[Len(menu.items) + 1 - k].id]

\* selectedMenu.items.map((item) => item.id)
existingItemIds(menu) == MapIndexed(menu.items, LAMBDA item, index : item.id)

\* The input of the menuItemCreate of a submitted item.
createItemInput(menu, item, map) ==
    [menu |-> menu.id,
     name |-> item.name,
     category |-> item.category,
     collection |-> item.collection,
     page |-> item.page,
     parent |-> IF Truthy(item.parent) THEN MapGet(map, item.parent)
                ELSE UNDEFINED]

\* After the create loop: the handler's last three statements.
UpdateCompletes(reqs, map) ==
    /\ requests' = reqs
    /\ createdItemIds' = map
    /\ selectedMenu' = None
    /\ isModalOpen' = FALSE
    /\ Refetch
    /\ pc' = "done"
    /\ Rerender(error, TRUE, FALSE, None)
    /\ UNCHANGED <<error, menusData, closure, i>>

\* The create loop at index k: the next menuItemCreate is issued and
\* awaited, or the loop is over.
CreateLoop(reqs, k, map) ==
    LET menu == closure.selectedMenu[1]
        items == closure.menuData[1].items
    IN  IF k < Len(items)
        THEN /\ requests' = Issue(reqs, "menuItemCreate",
                   [input |-> createItemInput(menu, items[k + 1], map)])
             /\ createdItemIds' = map
             /\ i' = k
             /\ pc' = "menuItemCreate"
             /\ UNCHANGED <<formVars, pageVars, closure, refetched>>
        ELSE UpdateCompletes(reqs, map)

\* The delete loop at index k: the next menuItemDelete is issued and
\* awaited, or the loop is over and the create loop starts with an empty
\* Map.
DeleteLoop(reqs, k) ==
    LET ids == existingItemIds(closure.selectedMenu[1])
    IN  IF k < Len(ids)
        THEN /\ requests' = Issue(reqs, "menuItemDelete", [id |-> ids[k + 1]])
             /\ i' = k
             /\ pc' = "menuItemDelete"
             /\ UNCHANGED <<formVars, pageVars, closure, createdItemIds,
                            refetched>>
        ELSE CreateLoop(reqs, 0, << >>)

\* The form is submitted with a menu selected: handleUpdateMenu runs up to
\* its first await.
SubmitUpdate ==
    /\ UserAtForm
    /\ selectedMenu # None
    /\ RequiredFilled(menuData, menuItems)
    /\ LET arg == SubmittedMenu(menuData, menuItems, itemIds)
       IN  /\ closure' = [selectedMenu |-> selectedMenu,
                          menuData |-> Some(arg), id |-> NULL]
           /\ requests' = Issue(<< >>, "menuUpdate",
                  [id |-> selectedMenu[1].id,
                   input |-> [name |-> arg.name, slug |-> arg.slug]])
    /\ pc' = "menuUpdate"
    /\ refetched' = FALSE
    /\ UNCHANGED <<formVars, pageVars, i, createdItemIds>>

MenuUpdateReturns ==
    /\ pc = "menuUpdate"
    /\ \E r \in Failures \cup {Accepted(NULL)} :
         LET reqs == Respond(requests, r)
         IN  IF updateMenuFailed(r)
             THEN Caught(reqs, updateMenuMessage(r))
             ELSE DeleteLoop(reqs, 0)

MenuItemDeleteReturns ==
    /\ pc = "menuItemDelete"
    /\ \E r \in Failures \cup {Accepted(NULL)} :
         LET reqs == Respond(requests, r)
         IN  IF deleteItemFailed(r)
             THEN Caught(reqs, updateMenuMessage(r))
             ELSE DeleteLoop(reqs, i + 1)

\* A menuItemCreate returns: a failure, the new item with its id, or a
\* response without errors and without menuItem.
MenuItemCreateReturns ==
    /\ pc = "menuItemCreate"
    /\ \E r \in Failures \cup {Accepted(IssuedId(requests)), Accepted(NULL)} :
         LET reqs == Respond(requests, r)
             item == closure.menuData[1].items[i + 1]
         IN  IF createItemFailed(r)
             THEN Caught(reqs, updateMenuMessage(r))
             ELSE CreateLoop(reqs, i + 1,
                             IF Truthy(r.id)
                             THEN MapSet(createdItemIds, item.id, r.id)
                             ELSE createdItemIds)

\* Faulty variant: dismissing also closes the modal and drops the selection.
DismissAndClose ==
    /\ View(error, loading) = "banner"
    /\ error' = NULL
    /\ selectedMenu' = None
    /\ isModalOpen' = FALSE
    /\ Rerender(NULL, loading, FALSE, None)
    /\ UNCHANGED <<loading, menusData, runVars>>

\* "Dismiss" on the error banner: setError(null).
Dismiss ==
    /\ View(error, loading) = "banner"
    /\ error' = NULL
    /\ Rerender(NULL, loading, isModalOpen, selectedMenu)
    /\ UNCHANGED <<isModalOpen, selectedMenu, loading, menusData, runVars>>

Next ==
    \/ FetchDone
    \/ OpenCreate
    \/ OpenEdit
    \/ CloseModal
    \/ SetMenuName
    \/ AddMenuItem
    \/ UpdateMenuItem
    \/ RemoveMenuItem
    \/ SubmitCreate
    \/ MenuCreateReturns
    \/ DeleteMenuClick
    \/ MenuDeleteReturns
    \/ SubmitUpdate
    \/ MenuUpdateReturns
    \/ MenuItemDeleteReturns
    \/ MenuItemCreateReturns
    \/ HandlerReturn
    \/ Dismiss

Spec == Init /\ [][Next]_vars

-----------------------------------------------------------------------------
(* Properties                                                              *)

Succeeded(req) ==
    /\ req.result # None
    /\ ~Truthy(req.result[1].error)
    /\ Len(req.result[1].errors) = 0

Failed(req) == req.result # None /\ ~Succeeded(req)

UpdateRunning == Len(requests) > 0 /\ requests[1].op = "menuUpdate"

\* Position in requests of the menuItemCreate of the submitted item at
\* 1-based position m, in a run of handleUpdateMenu.
CreateAt(m) == 1 + Len(closure.selectedMenu[1].items) + m

\* C1: in the recreate phase of handleUpdateMenu, a submitted item whose
\* parent reference is the temporary id of an item at an earlier position
\* is created with the id the server issued for that earlier item in this
\* run as its parent.
C1_ParentIsIssuedId ==
    UpdateRunning =>
      LET items == closure.menuData[1].items
      IN  \A m \in 1..Len(items) : \A j \in 1..(m - 1) :
            ( /\ CreateAt(m) <= Len(requests)
              /\ Truthy(items[m].parent)
              /\ items[j].id = items[m].parent
              /\ Truthy(requests[CreateAt(j)].result[1].id) )
            => requests[CreateAt(m)].variables.input.parent
                 = requests[CreateAt(j)].result[1].id

\* C2: handleUpdateMenu aborts on the first failure: a failed request is
\* the last request of its run, so a failed menuUpdate is followed by no
\* delete and no create, a failed menuItemDelete by no further delete and
\* by no create at all, a failed menuItemCreate by no later create.
C2_AbortOnFirstFailure ==
    UpdateRunning =>
      \A k \in 1..Len(requests) :
        Failed(requests[k]) =>
          /\ k = Len(requests)
          /\ pc = "done"
          /\ requests[k].op = "menuUpdate" => Len(requests) = 1
          /\ requests[k].op = "menuItemDelete" =>
               \A m \in 1..Len(requests) : requests[m].op # "menuItemCreate"

\* The second of two deletes failed while items were waiting to be created.
C2_Witness ==
    /\ UpdateRunning
    /\ pc = "done"
    /\ Len(requests) = 3
    /\ requests[3].op = "menuItemDelete"
    /\ Failed(requests[3])
    /\ Len(closure.menuData[1].items) > 0

\* C3: a handler calls refetchMenus if and only if it has run to its end
\* with every one of its requests returned without transport error and
\* with an empty server error list.
C3_RefetchIffSucceeded ==
    /\ pc = "done" =>
         (refetched <=> \A k \in 1..Len(requests) : Succeeded(requests[k]))
    /\ pc # "done" => ~refetched

\* An update with deletes and creates has succeeded and refetched.
C3_Witness ==
    /\ UpdateRunning
    /\ pc = "done"
    /\ refetched
    /\ Len(closure.selectedMenu[1].items) = 2
    /\ Len(closure.menuData[1].items) = 2

\* C4: every draft that has a parent references the tracked id of a draft
\* at a strictly earlier position of the list.
C4_ParentsAreEarlier ==
    \A k \in 1..Len(menuItems) :
      menuItems[k].parentId # None =>
        \E j \in 1..(k - 1) :
          j <= Len(itemIds) /\ itemIds[j] = menuItems[k].parentId[1].value

\* C5: the parent options of row i are one option per draft at rows
\* 0..i-1, in order, each with the draft's tracked id as value and the
\* draft's name as label.
C5_ParentOptions ==
    Len(itemIds) = Len(menuItems) =>
      \A index \in 0..Len(menuItems) :
        getAvailableParentItems(menuItems, itemIds, index)
          = [k \in 1..index |->
               [value |-> itemIds[k], label |-> menuItems[k].name]]

\* Three drafts with a persisted and a placeholder id and different names.
C5_Witness ==
    /\ Len(menuItems) = 3
    /\ itemIds[1] = "c"
    /\ itemIds[2] = "new-1"
    /\ menuItems[1].name # menuItems[2].name
    /\ Len(getAvailableParentItems(menuItems, itemIds, 2)) = 2

\* C6: menuItems and itemIds have the same length, and each draft sits
\* beside the id it was paired with when it entered the list.
C6_ListsAligned ==
    /\ Len(menuItems) = Len(itemIds)
    /\ \A k \in 1..Len(menuItems) : itemIds[k] = menuItems[k].paired

\* The middle draft of three has been removed.
C6_Witness ==
    /\ selectedMenu # None
    /\ itemIds = << "a", "new-2" >>
    /\ Len(menuItems) = 2

\* C7: a handler step that ends in a failure leaves the error banner
\* rendered.
C7_FailureShowsBanner ==
    [][ ( /\ pc # "done"
          /\ pc' = "done"
          /\ \E k \in 1..Len(requests') : Failed(requests'[k]) )
        => View(error', loading') = "banner" ]_vars

\* C8: dismissing the banner sets the error slot to null, the page is
\* rendered again, nothing is fetched or requested, and the menu list, the
\* selected menu and the modal flag stay as they are.
C8_DismissOnlyClears ==
    [][ (View(error, loading) = "banner" /\ error' = NULL)
        => /\ View(error', loading') = "page"
           /\ UNCHANGED <<menusData, selectedMenu, isModalOpen, loading>>
           /\ UNCHANGED <<pc, requests, refetched>> ]_vars

\* The banner of a failed update has been dismissed: the modal is open on
\* the selected menu again.
C8_Witness ==
    /\ pc = "done"
    /\ \E k \in 1..Len(requests) : Failed(requests[k])
    /\ error = NULL
    /\ isModalOpen
    /\ selectedMenu # None

\* C9: the requests of a run of handleUpdateMenu are issued one at a time
\* in the order menuUpdate, one menuItemDelete per item of the selected
\* menu in list order, one menuItemCreate per submitted item in submission
\* order; each is issued after the one before has returned successfully.
C9_OneAtATimeInOrder ==
    UpdateRunning =>
      LET menu == closure.selectedMenu[1]
          items == closure.menuData[1].items
          nDel == Len(menu.items)
      IN  /\ Len(requests) <= 1 + nDel + Len(items)
          /\ \A k \in 1..Len(requests) :
               /\ k < Len(requests) => Succeeded(requests[k])
               /\ k = 1 =>
                    /\ requests[k].op = "menuUpdate"
                    /\ requests[k].variables.id = menu.id
               /\ (k > 1 /\ k <= 1 + nDel) =>
                    /\ requests[k].op = "menuItemDelete"
                    /\ requests[k].variables.id = menu.items[k - 1].id
               /\ k > 1 + nDel =>
                    /\ requests[k].op = "menuItemCreate"
                    /\ requests[k].variables.input.name
                         = items[k - 1 - nDel].name
                    /\ requests[k].variables.input.menu = menu.id
          /\ pc \in {"menuUpdate", "menuItemDelete", "menuItemCreate"}
               <=> requests[Len(requests)].result = None

\* The second create is in flight after two deletes, the submitted items
\* having different names.
C9_Witness ==
    /\ UpdateRunning
    /\ pc = "menuItemCreate"
    /\ Len(requests) = 5
    /\ closure.menuData[1].items[1].name # closure.menuData[1].items[2].name

\* C10: the tracked ids of the drafts are pairwise distinct.
C10_TrackedIdsDistinct ==
    \A j \in 1..Len(itemIds) : \A k \in 1..Len(itemIds) :
      j # k => itemIds[j] # itemIds[k]

\* The menu's item list places every parent before its children.
ParentsBeforeChildren(menu) ==
    \A k \in 1..Len(menu.items) :
      menu.items[k].parent # None =>
        \E j \in 1..(k - 1) : menu.items[j].id = menu.items[k].parent[1].id

\* The finished run of handleUpdateMenu was a submit of the form as it was
\* mounted for the selected menu, every request succeeded and every
\* menuItemCreate returned the new item.
UnchangedSubmitSucceeded ==
    /\ UpdateRunning
    /\ pc = "done"
    /\ refetched
    /\ closure.menuData[1].items
         = processedItems(InitialMenuItems(closure.selectedMenu),
                          InitialItemIds(closure.selectedMenu))
    /\ \A k \in 1..Len(requests) :
         requests[k].op = "menuItemCreate" => Truthy(requests[k].result[1].id)

\* id of an optional reference, undefined when there is none.
RefId(ref) == IF ref = None THEN UNDEFINED ELSE ref[1].id

\* C11: an update submitted without changing any draft, all requests
\* succeeding, recreates as many items as the menu had, in the same order,
\* each with the same name, category, collection, page, url and parent (the
\* newly issued id of the item that was its parent) as before the edit.
C11_UnchangedSubmitPreserves ==
    (UnchangedSubmitSucceeded /\ ParentsBeforeChildren(closure.selectedMenu[1]))
    => LET menu == closure.selectedMenu[1]
           n == Len(menu.items)
           created(k) == requests[CreateAt(k)]
       IN  /\ Len(requests) = 1 + n + n
           /\ \A k \in 1..n :
                LET before == menu.items[k]
                    input == created(k).variables.input
                IN  /\ created(k).op = "menuItemCreate"
                    /\ input.name = before.name
                    /\ input.category = RefId(before.category)
                    /\ input.collection = RefId(before.collection)
                    /\ input.page = RefId(before.page)
                    /\ Truthy(before.url) =>
                         ("url" \in DOMAIN input /\ input.url = before.url)
                    /\ IF before.parent = None THEN ~Truthy(input.parent)
                       ELSE \E j \in 1..(k - 1) :
                              /\ menu.items[j].id = before.parent[1].id
                              /\ input.parent = created(j).result[1].id

=============================================================================
